---- MODULE Spec2Model ----
(***************************************************************************)
(* Homomorphic SHA-256 over a gate-level boolean FHE scheme                *)
(* (jumbojets/sha256-tfhe).                                                *)
(*                                                                         *)
(* A bit ciphertext is modelled by the plaintext bit it decrypts to: the   *)
(* gate layer (tfhe::boolean) is an external library whose gates are       *)
(* homomorphic, so server_key.xor(a, b) decrypts to a # b, and so on.      *)
(*                                                                         *)
(* A plaintext u32 is the pair <<hi, lo>> of its 16-bit halves, because    *)
(* the model checker's integers are signed 32-bit: every operation on a    *)
(* u32 below is carried out on the halves and keeps the 32-bit width.      *)
(***************************************************************************)
EXTENDS Integers, Sequences, FiniteSets, TLC

VARIABLES
    pc,         \* position of the client/server pipeline in lib.rs
    source,     \* how input_ct was produced
    message,    \* the plaintext message handed to the entry point
    input_ct,   \* InputCiphertext.inner: Vec<U32Ct>
    it,         \* number of words the iterator input_ct.iter() has yielded
    s,          \* chaining state, [U32Ct; 8]
    alphabet,   \* working state, [U32Ct; 8]
    w,          \* message schedule window, [U32Ct; 16] (partial during from_fn)
    blk,        \* index of the block being compressed
    rnd,        \* index i of the next round of the block
    k_arg,      \* the word last passed to round() as kp (k_w / k_wo0)
    digest,     \* DigestCiphertext.inner returned by sha256_tfhe
    hash,       \* [u8; 32] returned by decrypt_hash
    op,         \* name of the function applied (function-level specification)
    args,       \* its plaintext arguments
    res         \* its result

vars == <<pc, source, message, input_ct, it, s, alphabet, w, blk, rnd, k_arg,
          digest, hash, op, args, res>>

pipeline_vars == <<pc, source, message, input_ct, it, s, alphabet, w, blk, rnd,
                   k_arg, digest, hash>>

(***************************************************************************)
(* Bounds of the model.                                                    *)
(***************************************************************************)
\* number of sample 32-bit values the word operations are applied to
NumSamples == 5
\* largest shift passed to rotate_right / shift_right
MaxShift == 34
\* longest message, in bytes, handed to pad_message
MaxLen == 64
\* longest deserialized InputCiphertext, in words
MaxRawWords == 17

(***************************************************************************)
(* Plaintext values.                                                       *)
(***************************************************************************)
U32(hi, lo) == <<hi, lo>>

\* what a panicking call yields instead of a value
Panic == <<>>

Sample(n) ==
    CASE n = 0 -> U32(0, 0)
      [] n = 1 -> U32(\Hffff, \Hffff)
      [] n = 2 -> U32(\H0000, \Hffff)
      [] n = 3 -> U32(\Hcef8, \H6cb2)
      [] n = 4 -> U32(\H397a, \Hcd3d)
      [] n = 5 -> U32(\H8000, \H0001)
      [] OTHER -> U32((n * 40503 + 12345) % 65536, (n * 25173 + 13849) % 65536)

Samples == {Sample(n) : n \in 0..(NumSamples - 1)}

(***************************************************************************)
(* u32ct.rs: the encrypted 32-bit word, [Ciphertext; 32], slot 0 the       *)
(* least significant bit.                                                  *)
(***************************************************************************)
Pow2(n) == 2 ^ n

bits(x) ==
    [j \in 0..31 |-> IF j < 16 THEN (x[2] \div Pow2(j)) % 2 = 1
                               ELSE (x[1] \div Pow2(j - 16)) % 2 = 1]

RECURSIVE from_bits_rev(_, _, _, _)
\* the loop of from_bits over slots j, j-1, .., low: r <<= 1; r += b
from_bits_rev(b, j, low, r) ==
    IF j < low THEN r
    ELSE from_bits_rev(b, j - 1, low, ((r * 2) % 65536) + (IF b[j] THEN 1 ELSE 0))

from_bits(b) == U32(from_bits_rev(b, 31, 16, 0), from_bits_rev(b, 15, 0, 0))

encrypt(x) == bits(x)

trivial_encrypt(x) == bits(x)

decrypt(self) == from_bits(self)

\* mutant of full_adder: the two carry terms joined by AND instead of OR
full_adder_and_carry(a, b, c_in) ==
    LET a_xor_b == a # b
        sum == a_xor_b # c_in
        axb_and_c_in == a_xor_b /\ c_in
        a_and_b == a /\ b
        c_out == axb_and_c_in /\ a_and_b
    IN <<sum, c_out>>

full_adder(a, b, c_in) ==
    LET a_xor_b == a # b
        sum == a_xor_b # c_in
        axb_and_c_in == a_xor_b /\ c_in
        a_and_b == a /\ b
        c_out == axb_and_c_in \/ a_and_b
    IN <<sum, c_out>>

RECURSIVE add_map(_, _, _, _)
\* the closure of add applied to slots j..31 in order, threading carry
add_map(self, other, j, carry) ==
    IF j = 32 THEN <<>>
    ELSE LET r == full_adder(self[j], other[j], carry)
         IN <<r[1]>> \o add_map(self, other, j + 1, r[2])

add(self, other) ==
    LET inner == add_map(self, other, 0, FALSE)
    IN [j \in 0..31 |-> inner[j + 1]]

bitxor(self, other) == [j \in 0..31 |-> self[j] # other[j]]

bitand(self, other) == [j \in 0..31 |-> self[j] /\ other[j]]

bitnot(self) == [j \in 0..31 |-> ~self[j]]

\* <[T]>::rotate_left(mid) on the 32 slots: panics when mid > 32
slots_rotate_left(inner, mid) ==
    IF mid > 32 THEN Panic
    ELSE [j \in 0..31 |-> inner[(j + mid) % 32]]

rotate_right(self, shift) == slots_rotate_left(self, shift)

\* mutant of shift_right: the fill loop clears one slot too few
shift_right_short_fill(self, shift) ==
    LET inner == slots_rotate_left(self, shift)
    IN IF inner = Panic THEN Panic
       ELSE [j \in 0..31 |-> IF j > 32 - shift THEN FALSE ELSE inner[j]]

shift_right(self, shift) ==
    LET inner == slots_rotate_left(self, shift)
    IN IF inner = Panic THEN Panic
       ELSE [j \in 0..31 |-> IF j > 31 - shift THEN FALSE ELSE inner[j]]

(***************************************************************************)
(* util.rs: padding and the SHA-256 bit-mixing helpers.                    *)
(***************************************************************************)
RECURSIVE to_be_bytes(_, _)
\* the n low-order bytes of x, most significant first
to_be_bytes(x, n) ==
    IF n = 0 THEN <<>> ELSE Append(to_be_bytes(x \div 256, n - 1), x % 256)

RECURSIVE pad_zeros(_)
pad_zeros(msg) ==
    IF (Len(msg) * 8 + 64) % 512 # 0 THEN pad_zeros(Append(msg, 0)) ELSE msg

\* mutant of pad_message: the length field counts bytes instead of bits
pad_message_byte_length(msg) ==
    LET length == Len(msg)
        padded == pad_zeros(Append(msg, 128)) \o to_be_bytes(length, 8)
    IN IF (Len(padded) * 8) % 512 = 0 THEN padded ELSE Panic

pad_message(msg) ==
    LET length == Len(msg) * 8
        padded == pad_zeros(Append(msg, 128)) \o to_be_bytes(length, 8)
    IN IF (Len(padded) * 8) % 512 = 0 THEN padded ELSE Panic

\* mutant of sigma0: the third term rotates instead of shifting
sigma0_rotate_3(x) ==
    LET rotate_7 == rotate_right(x, 7)
        rotate_18 == rotate_right(x, 18)
        rotate_3 == rotate_right(x, 3)
        xor_7_18 == bitxor(rotate_7, rotate_18)
    IN bitxor(xor_7_18, rotate_3)

sigma0(x) ==
    LET rotate_7 == rotate_right(x, 7)
        rotate_18 == rotate_right(x, 18)
        shift_3 == shift_right(x, 3)
        xor_7_18 == bitxor(rotate_7, rotate_18)
    IN bitxor(xor_7_18, shift_3)

\* mutant of sigma1: the rotation and shift widths of sigma0
sigma1_widths_of_sigma0(x) ==
    LET rotate_17 == rotate_right(x, 7)
        rotate_19 == rotate_right(x, 18)
        shift_10 == shift_right(x, 3)
        xor_17_19 == bitxor(rotate_17, rotate_19)
    IN bitxor(xor_17_19, shift_10)

sigma1(x) ==
    LET rotate_17 == rotate_right(x, 17)
        rotate_19 == rotate_right(x, 19)
        shift_10 == shift_right(x, 10)
        xor_17_19 == bitxor(rotate_17, rotate_19)
    IN bitxor(xor_17_19, shift_10)

capsigma0(x) ==
    LET rotate_2 == rotate_right(x, 2)
        rotate_13 == rotate_right(x, 13)
        rotate_22 == rotate_right(x, 22)
        xor_2_13 == bitxor(rotate_2, rotate_13)
    IN bitxor(xor_2_13, rotate_22)

capsigma1(x) ==
    LET rotate_6 == rotate_right(x, 6)
        rotate_11 == rotate_right(x, 11)
        rotate_25 == rotate_right(x, 25)
        xor_6_11 == bitxor(rotate_6, rotate_11)
    IN bitxor(xor_6_11, rotate_25)

ch(x, y, z) ==
    LET left == bitand(x, y)
        not_x == bitnot(x)
        right == bitand(not_x, z)
    IN bitxor(left, right)

maj(x, y, z) ==
    LET left == bitand(x, y)
        middle == bitand(x, z)
        right == bitand(y, z)
        fold_l == bitxor(left, middle)
    IN bitxor(fold_l, right)

(***************************************************************************)
(* constants.rs: the SHA-256 initial hash values and round constants.      *)
(***************************************************************************)
H ==
    [i \in 0..7 |->
        <<U32(\H6a09, \He667), U32(\Hbb67, \Hae85), U32(\H3c6e, \Hf372), U32(\Ha54f, \Hf53a),
          U32(\H510e, \H527f), U32(\H9b05, \H688c), U32(\H1f83, \Hd9ab), U32(\H5be0, \Hcd19)>>[i + 1]]

K ==
    [i \in 0..63 |->
        <<U32(\H428a, \H2f98), U32(\H7137, \H4491), U32(\Hb5c0, \Hfbcf), U32(\He9b5, \Hdba5),
          U32(\H3956, \Hc25b), U32(\H59f1, \H11f1), U32(\H923f, \H82a4), U32(\Hab1c, \H5ed5),
          U32(\Hd807, \Haa98), U32(\H1283, \H5b01), U32(\H2431, \H85be), U32(\H550c, \H7dc3),
          U32(\H72be, \H5d74), U32(\H80de, \Hb1fe), U32(\H9bdc, \H06a7), U32(\Hc19b, \Hf174),
          U32(\He49b, \H69c1), U32(\Hefbe, \H4786), U32(\H0fc1, \H9dc6), U32(\H240c, \Ha1cc),
          U32(\H2de9, \H2c6f), U32(\H4a74, \H84aa), U32(\H5cb0, \Ha9dc), U32(\H76f9, \H88da),
          U32(\H983e, \H5152), U32(\Ha831, \Hc66d), U32(\Hb003, \H27c8), U32(\Hbf59, \H7fc7),
          U32(\Hc6e0, \H0bf3), U32(\Hd5a7, \H9147), U32(\H06ca, \H6351), U32(\H1429, \H2967),
          U32(\H27b7, \H0a85), U32(\H2e1b, \H2138), U32(\H4d2c, \H6dfc), U32(\H5338, \H0d13),
          U32(\H650a, \H7354), U32(\H766a, \H0abb), U32(\H81c2, \Hc92e), U32(\H9272, \H2c85),
          U32(\Ha2bf, \He8a1), U32(\Ha81a, \H664b), U32(\Hc24b, \H8b70), U32(\Hc76c, \H51a3),
          U32(\Hd192, \He819), U32(\Hd699, \H0624), U32(\Hf40e, \H3585), U32(\H106a, \Ha070),
          U32(\H19a4, \Hc116), U32(\H1e37, \H6c08), U32(\H2748, \H774c), U32(\H34b0, \Hbcb5),
          U32(\H391c, \H0cb3), U32(\H4ed8, \Haa4a), U32(\H5b9c, \Hca4f), U32(\H682e, \H6ff3),
          U32(\H748f, \H82ee), U32(\H78a5, \H636f), U32(\H84c8, \H7814), U32(\H8cc7, \H0208),
          U32(\H90be, \Hfffa), U32(\Ha450, \H6ceb), U32(\Hbef9, \Ha3f7), U32(\Hc671, \H78f2)>>[i + 1]]

(***************************************************************************)
(* lib.rs: input encryption, the round, digest decryption.                 *)
(***************************************************************************)
\* mutant of from_be_bytes: the four bytes read least significant first
from_le_bytes(b0, b1, b2, b3) == U32(b3 * 256 + b2, b1 * 256 + b0)

from_be_bytes(b0, b1, b2, b3) == U32(b0 * 256 + b1, b2 * 256 + b3)

u32_to_be_bytes(x) == <<x[1] \div 256, x[1] % 256, x[2] \div 256, x[2] % 256>>

\* the plaintext values a closure |x| U32Ct::...(x, key) is applied to
U32Values == (0..65535) \X (0..65535)

encrypt_input_helper(msg, enc) ==
    LET padded == pad_message(msg)
    IN [n \in 1..(Len(padded) \div 4) |->
            enc[from_be_bytes(padded[4 * n - 3], padded[4 * n - 2],
                              padded[4 * n - 1], padded[4 * n])]]

encrypt_input(msg) == encrypt_input_helper(msg, [x \in U32Values |-> encrypt(x)])

trivial_encrypt_input(msg) ==
    encrypt_input_helper(msg, [x \in U32Values |-> trivial_encrypt(x)])

\* mutant of round: slot h receives t1 alone
round_without_t2(alph, kp) ==
    LET a == alph[0]
        b == alph[1]
        c == alph[2]
        d == alph[3]
        e == alph[4]
        f == alph[5]
        g == alph[6]
        h == alph[7]
        t1 == add(add(add(h, capsigma1(e)), ch(e, f, g)), kp)
        t2 == add(capsigma0(a), maj(a, b, c))
    IN [alph EXCEPT ![3] = add(d, t1), ![7] = t1]

round(alph, kp) ==
    LET a == alph[0]
        b == alph[1]
        c == alph[2]
        d == alph[3]
        e == alph[4]
        f == alph[5]
        g == alph[6]
        h == alph[7]
        t1 == add(add(add(h, capsigma1(e)), ch(e, f, g)), kp)
        t2 == add(capsigma0(a), maj(a, b, c))
    IN [alph EXCEPT ![3] = add(d, t1), ![7] = add(t1, t2)]

\* <[T]>::rotate_right(1) on the eight words of the working state
array_rotate_right(alph) == [j \in 0..7 |-> alph[(j + 7) % 8]]

decrypt_hash(digest_ct) ==
    LET word(n) == u32_to_be_bytes(decrypt(digest_ct[n]))
    IN word(0) \o word(1) \o word(2) \o word(3) \o
       word(4) \o word(5) \o word(6) \o word(7)

(***************************************************************************)
(* The pipeline of lib.rs: an InputCiphertext is produced (by one of the   *)
(* two entry points, or by deserializing one: the type derives             *)
(* Deserialize), sha256_tfhe runs on it round by round, and decrypt_hash   *)
(* decrypts the digest.                                                    *)
(***************************************************************************)
\* the message of a given length the model hashes and pads
Msg(len) == [n \in 1..len |-> (n * 37 + len * 11 + 97) % 256]

\* the constants lifted into the circuit
k == [j \in 0..63 |-> trivial_encrypt(K[j])]

Init ==
    /\ pc = "client"
    /\ source = "none"
    /\ message = <<>>
    /\ input_ct = <<>>
    /\ it = 0
    /\ s = <<>>
    /\ alphabet = <<>>
    /\ w = <<>>
    /\ blk = 0
    /\ rnd = 0
    /\ k_arg = <<>>
    /\ digest = <<>>
    /\ hash = <<>>
    /\ op = "none"
    /\ args = <<>>
    /\ res = <<>>

ops_vars == <<op, args, res>>

EncryptInput ==
    /\ pc = "client"
    /\ \E len \in 0..MaxLen :
        /\ message' = Msg(len)
        /\ input_ct' = encrypt_input(Msg(len))
    /\ source' = "encrypt_input"
    /\ pc' = "sha256_tfhe"
    /\ UNCHANGED <<it, s, alphabet, w, blk, rnd, k_arg, digest, hash, ops_vars>>

TrivialEncryptInput ==
    /\ pc = "client"
    /\ \E len \in 0..MaxLen :
        /\ message' = Msg(len)
        /\ input_ct' = trivial_encrypt_input(Msg(len))
    /\ source' = "trivial_encrypt_input"
    /\ pc' = "sha256_tfhe"
    /\ UNCHANGED <<it, s, alphabet, w, blk, rnd, k_arg, digest, hash, ops_vars>>

\* an InputCiphertext of any number of words, read back from its serialized form
Deserialize ==
    /\ pc = "client"
    /\ \E n \in 0..MaxRawWords :
        input_ct' = [j \in 1..n |-> encrypt(Sample(j % (NumSamples + 3)))]
    /\ source' = "deserialize"
    /\ pc' = "sha256_tfhe"
    /\ UNCHANGED <<message, it, s, alphabet, w, blk, rnd, k_arg, digest, hash, ops_vars>>

blocks == Len(input_ct) \div 16

\* sha256_tfhe up to its block loop: the length assertion, the iterator, s and k
Sha256Enter ==
    /\ pc = "sha256_tfhe"
    /\ IF Len(input_ct) % 16 = 0
       THEN /\ it' = 0
            /\ s' = [j \in 0..7 |-> trivial_encrypt(H[j])]
            /\ blk' = 0
            /\ pc' = "for_blocks"
       ELSE /\ pc' = "panic"
            /\ UNCHANGED <<it, s, blk>>
    /\ UNCHANGED <<source, message, input_ct, alphabet, w, rnd, k_arg, digest, hash, ops_vars>>

\* one more block: let mut alphabet = s.clone()
BeginBlock ==
    /\ pc = "for_blocks"
    /\ blk < blocks
    /\ alphabet' = s
    /\ w' = <<>>
    /\ rnd' = 0
    /\ pc' = "from_fn"
    /\ UNCHANGED <<source, message, input_ct, it, s, blk, k_arg, digest, hash, ops_vars>>

\* one call of the closure of array::from_fn: rounds 0..15
FromFnRound ==
    /\ pc = "from_fn"
    /\ IF it < Len(input_ct)
       THEN LET wi == input_ct[it + 1]
                k_w == add(k[rnd], wi)
            IN /\ it' = it + 1
               /\ k_arg' = k_w
               /\ alphabet' = array_rotate_right(round(alphabet, k_w))
               /\ w' = [j \in 0..rnd |-> IF j = rnd THEN wi ELSE w[j]]
               /\ rnd' = rnd + 1
               /\ pc' = IF rnd = 15 THEN "for_rounds" ELSE "from_fn"
       ELSE /\ pc' = "panic"
            /\ UNCHANGED <<it, k_arg, alphabet, w, rnd>>
    /\ UNCHANGED <<source, message, input_ct, s, blk, digest, hash, ops_vars>>

\* mutant of ScheduleRound: the third slot is (i + 8) % 16 instead of (i + 9) % 16
ScheduleRound_slot_8 ==
    /\ pc = "for_rounds"
    /\ LET o0 == rnd % 16
           o1 == (rnd + 1) % 16
           o9 == (rnd + 8) % 16
           o14 == (rnd + 14) % 16
       IN IF Cardinality({o0, o1, o9, o14}) = 4
          THEN LET s0 == sigma0(w[o1])
                   s1 == sigma1(w[o14])
                   wo0 == add(add(add(w[o0], s0), s1), w[o9])
                   k_wo0 == add(wo0, k[rnd])
               IN /\ w' = [w EXCEPT ![o0] = wo0]
                  /\ k_arg' = k_wo0
                  /\ alphabet' = array_rotate_right(round(alphabet, k_wo0))
                  /\ rnd' = rnd + 1
                  /\ pc' = IF rnd = 63 THEN "chain" ELSE "for_rounds"
          ELSE /\ pc' = "panic"
               /\ UNCHANGED <<w, k_arg, alphabet, rnd>>
    /\ UNCHANGED <<source, message, input_ct, it, s, blk, digest, hash, ops_vars>>

\* one iteration of for i in 16..64: the schedule update and its round
ScheduleRound ==
    /\ pc = "for_rounds"
    /\ LET o0 == rnd % 16
           o1 == (rnd + 1) % 16
           o9 == (rnd + 9) % 16
           o14 == (rnd + 14) % 16
       IN IF Cardinality({o0, o1, o9, o14}) = 4
          THEN LET s0 == sigma0(w[o1])
                   s1 == sigma1(w[o14])
                   wo0 == add(add(add(w[o0], s0), s1), w[o9])
                   k_wo0 == add(wo0, k[rnd])
               IN /\ w' = [w EXCEPT ![o0] = wo0]
                  /\ k_arg' = k_wo0
                  /\ alphabet' = array_rotate_right(round(alphabet, k_wo0))
                  /\ rnd' = rnd + 1
                  /\ pc' = IF rnd = 63 THEN "chain" ELSE "for_rounds"
          ELSE /\ pc' = "panic"
               /\ UNCHANGED <<w, k_arg, alphabet, rnd>>
    /\ UNCHANGED <<source, message, input_ct, it, s, blk, digest, hash, ops_vars>>

\* mutant of ChainAdd: the working state overwrites the chaining state
ChainAdd_overwrite ==
    /\ pc = "chain"
    /\ s' = alphabet
    /\ blk' = blk + 1
    /\ pc' = "for_blocks"
    /\ UNCHANGED <<source, message, input_ct, it, alphabet, w, rnd, k_arg, digest, hash, ops_vars>>

\* the end of the block: s_i = s_i.add(alphabet_i)
ChainAdd ==
    /\ pc = "chain"
    /\ s' = [j \in 0..7 |-> add(s[j], alphabet[j])]
    /\ blk' = blk + 1
    /\ pc' = "for_blocks"
    /\ UNCHANGED <<source, message, input_ct, it, alphabet, w, rnd, k_arg, digest, hash, ops_vars>>

\* the block loop is over: DigestCiphertext { inner: s }
Sha256Return ==
    /\ pc = "for_blocks"
    /\ blk >= blocks
    /\ digest' = s
    /\ pc' = "returned"
    /\ UNCHANGED <<source, message, input_ct, it, s, alphabet, w, blk, rnd, k_arg, hash, ops_vars>>

DecryptHash ==
    /\ pc = "returned"
    /\ hash' = decrypt_hash(digest)
    /\ pc' = "done"
    /\ UNCHANGED <<source, message, input_ct, it, s, alphabet, w, blk, rnd, k_arg, digest, ops_vars>>

Next ==
    \/ EncryptInput
    \/ TrivialEncryptInput
    \/ Deserialize
    \/ Sha256Enter
    \/ BeginBlock
    \/ FromFnRound
    \/ ScheduleRound
    \/ ChainAdd
    \/ Sha256Return
    \/ DecryptHash

Spec == Init /\ [][Next]_vars

(***************************************************************************)
(* Function-level specification: one call of one function of u32ct.rs,     *)
(* util.rs or lib.rs on arguments drawn from the bounded sets, the way the *)
(* unit tests of the repository call them (encrypt, apply, keep result).   *)
(***************************************************************************)
Shifts == 0..MaxShift

\* a working state of eight sample words
SampleAlphabet(n) == [j \in 0..7 |-> Sample((n + 3 * j) % (NumSamples + 3))]

NoCall ==
    /\ pc = "none"
    /\ source = "none"
    /\ message = <<>>
    /\ input_ct = <<>>
    /\ it = 0
    /\ s = <<>>
    /\ alphabet = <<>>
    /\ w = <<>>
    /\ blk = 0
    /\ rnd = 0
    /\ k_arg = <<>>
    /\ digest = <<>>
    /\ hash = <<>>

InitOps ==
    /\ NoCall
    /\ op = "none"
    /\ args = <<>>
    /\ res = <<>>

CallAdd ==
    /\ op = "none"
    /\ \E x, y \in Samples :
        /\ args' = <<x, y>>
        /\ res' = add(encrypt(x), trivial_encrypt(y))
    /\ op' = "add"
    /\ UNCHANGED pipeline_vars

CallRotateRight ==
    /\ op = "none"
    /\ \E x \in Samples, shift \in Shifts :
        /\ args' = <<x, shift>>
        /\ res' = rotate_right(encrypt(x), shift)
    /\ op' = "rotate_right"
    /\ UNCHANGED pipeline_vars

CallShiftRight ==
    /\ op = "none"
    /\ \E x \in Samples, shift \in Shifts :
        /\ args' = <<x, shift>>
        /\ res' = shift_right(encrypt(x), shift)
    /\ op' = "shift_right"
    /\ UNCHANGED pipeline_vars

CallSigma0 ==
    /\ op = "none"
    /\ \E x \in Samples :
        /\ args' = <<x>>
        /\ res' = sigma0(encrypt(x))
    /\ op' = "sigma0"
    /\ UNCHANGED pipeline_vars

CallSigma1 ==
    /\ op = "none"
    /\ \E x \in Samples :
        /\ args' = <<x>>
        /\ res' = sigma1(encrypt(x))
    /\ op' = "sigma1"
    /\ UNCHANGED pipeline_vars

CallCapsigma0 ==
    /\ op = "none"
    /\ \E x \in Samples :
        /\ args' = <<x>>
        /\ res' = capsigma0(encrypt(x))
    /\ op' = "capsigma0"
    /\ UNCHANGED pipeline_vars

CallCapsigma1 ==
    /\ op = "none"
    /\ \E x \in Samples :
        /\ args' = <<x>>
        /\ res' = capsigma1(encrypt(x))
    /\ op' = "capsigma1"
    /\ UNCHANGED pipeline_vars

CallCh ==
    /\ op = "none"
    /\ \E x, y, z \in Samples :
        /\ args' = <<x, y, z>>
        /\ res' = ch(encrypt(x), encrypt(y), encrypt(z))
    /\ op' = "ch"
    /\ UNCHANGED pipeline_vars

CallMaj ==
    /\ op = "none"
    /\ \E x, y, z \in Samples :
        /\ args' = <<x, y, z>>
        /\ res' = maj(encrypt(x), encrypt(y), encrypt(z))
    /\ op' = "maj"
    /\ UNCHANGED pipeline_vars

\* round(&mut alphabet, &k_w, ..) followed by alphabet.rotate_right(1)
CallRound ==
    /\ op = "none"
    /\ \E n \in 0..(NumSamples - 1), kp \in Samples :
        LET before == [j \in 0..7 |-> encrypt(SampleAlphabet(n)[j])]
            after == round(before, encrypt(kp))
        IN /\ args' = <<SampleAlphabet(n), kp>>
           /\ res' = [after_round |-> after, rotated |-> array_rotate_right(after)]
    /\ op' = "round"
    /\ UNCHANGED pipeline_vars

CallPadMessage ==
    /\ op = "none"
    /\ \E len \in 0..MaxLen :
        /\ args' = <<Msg(len)>>
        /\ res' = pad_message(Msg(len))
    /\ op' = "pad_message"
    /\ UNCHANGED pipeline_vars

NextOps ==
    \/ CallAdd
    \/ CallRotateRight
    \/ CallShiftRight
    \/ CallSigma0
    \/ CallSigma1
    \/ CallCapsigma0
    \/ CallCapsigma1
    \/ CallCh
    \/ CallMaj
    \/ CallRound
    \/ CallPadMessage

SpecOps == InitOps /\ [][NextOps]_vars

(***************************************************************************)
(* Reference arithmetic on plaintext u32 values, on the 16-bit halves:     *)
(* what the native u32 operators of the unit tests compute.                *)
(***************************************************************************)
RefAdd(x, y) ==
    LET lo == x[2] + y[2]
        hi == x[1] + y[1] + (lo \div 65536)
    IN U32(hi % 65536, lo % 65536)

\* x rotated right by n bits, 0 <= n < 32
RefRotr(x, n) ==
    LET y == IF n >= 16 THEN U32(x[2], x[1]) ELSE x
        m == n % 16
    IN U32((y[1] \div Pow2(m)) + ((y[2] % Pow2(m)) * Pow2(16 - m)),
           (y[2] \div Pow2(m)) + ((y[1] % Pow2(m)) * Pow2(16 - m)))

\* x >> n, 0 <= n < 32
RefShr(x, n) ==
    IF n >= 16 THEN U32(0, x[1] \div Pow2(n - 16))
    ELSE U32(x[1] \div Pow2(n),
             (x[2] \div Pow2(n)) + ((x[1] % Pow2(n)) * Pow2(16 - n)))

RECURSIVE Xor16(_, _, _)
Xor16(a, b, n) ==
    IF n = 0 THEN 0
    ELSE (((a % 2) + (b % 2)) % 2) + (2 * Xor16(a \div 2, b \div 2, n - 1))

RECURSIVE And16(_, _, _)
And16(a, b, n) ==
    IF n = 0 THEN 0
    ELSE ((a % 2) * (b % 2)) + (2 * And16(a \div 2, b \div 2, n - 1))

RefXor(x, y) == U32(Xor16(x[1], y[1], 16), Xor16(x[2], y[2], 16))

\* a XOR b XOR c on 4-bit digits
Xor4of3(a, b, c) ==
    (((a % 2) + (b % 2) + (c % 2)) % 2) +
    (2 * ((((a \div 2) % 2) + ((b \div 2) % 2) + ((c \div 2) % 2)) % 2)) +
    (4 * ((((a \div 4) % 2) + ((b \div 4) % 2) + ((c \div 4) % 2)) % 2)) +
    (8 * (((a \div 8) + (b \div 8) + (c \div 8)) % 2))

\* a XOR b XOR c on 16-bit values, digit by digit
Xor16of3(a, b, c) ==
    Xor4of3(a % 16, b % 16, c % 16) +
    (16 * Xor4of3((a \div 16) % 16, (b \div 16) % 16, (c \div 16) % 16)) +
    (256 * Xor4of3((a \div 256) % 16, (b \div 256) % 16, (c \div 256) % 16)) +
    (4096 * Xor4of3(a \div 4096, b \div 4096, c \div 4096))

\* x XOR y XOR z
RefXor3(x, y, z) ==
    U32(Xor16of3(x[1], y[1], z[1]), Xor16of3(x[2], y[2], z[2]))

RefAnd(x, y) == U32(And16(x[1], y[1], 16), And16(x[2], y[2], 16))

RefNot(x) == U32(65535 - x[1], 65535 - x[2])

RefSigma0(x) == RefXor3(RefRotr(x, 7), RefRotr(x, 18), RefShr(x, 3))

RefSigma1(x) == RefXor3(RefRotr(x, 17), RefRotr(x, 19), RefShr(x, 10))

RefCapsigma0(x) == RefXor3(RefRotr(x, 2), RefRotr(x, 13), RefRotr(x, 22))

RefCapsigma1(x) == RefXor3(RefRotr(x, 6), RefRotr(x, 11), RefRotr(x, 25))

RefCh(x, y, z) == RefXor(RefAnd(x, y), RefAnd(RefNot(x), z))

RefMaj(x, y, z) == RefXor3(RefAnd(x, y), RefAnd(x, z), RefAnd(y, z))

\* bit n of the plaintext x
BitOf(x, n) ==
    IF n < 16 THEN (x[2] \div Pow2(n)) % 2 = 1 ELSE (x[1] \div Pow2(n - 16)) % 2 = 1

Zeros(n) == [j \in 1..n |-> 0]

\* the fewest zero bytes that bring len + 1 + n to 56 modulo 64
FewestZeros(len) ==
    CHOOSE n \in 0..63 :
        /\ (len + 1 + n) % 64 = 56
        /\ \A m \in 0..(n - 1) : (len + 1 + m) % 64 # 56

\* the 64-bit big-endian encoding of n < 2^31
RefBe64(n) ==
    <<0, 0, 0, 0, (n \div 16777216) % 256, (n \div 65536) % 256,
      (n \div 256) % 256, n % 256>>

(***************************************************************************)
(* Claims about the functions, checked under SpecOps.                      *)
(***************************************************************************)

\* C2: pad_message(M) is M, then 0x80, then the fewest 0x00 bytes that bring
\* the length to 56 modulo 64, then 8*L as a 64-bit big-endian integer; its
\* length is a positive multiple of 64 bytes for every L
C2_PadMessage ==
    op = "pad_message" =>
        LET M == args[1]
            L == Len(M)
        IN /\ res # Panic
           /\ res = M \o <<128>> \o Zeros(FewestZeros(L)) \o RefBe64(8 * L)
           /\ Len(res) > 0
           /\ Len(res) % 64 = 0

\* a message of 56 bytes is padded into two blocks
C2_Witness ==
    /\ op = "pad_message"
    /\ Len(args[1]) = 56
    /\ Len(res) = 128

\* C3: add decrypts to (a + b) mod 2^32
C3_Add == op = "add" => decrypt(res) = RefAdd(args[1], args[2])

\* an addition that carries from the low half into the high half and whose
\* final carry-out is discarded
C3_Witness ==
    /\ op = "add"
    /\ args[1][2] + args[2][2] >= 65536
    /\ args[1][1] + args[2][1] >= 65536
    /\ decrypt(res) = RefAdd(args[1], args[2])

\* C4: rotate_right(k) returns, for every k including k >= 32, a word that
\* decrypts to x rotated right by k mod 32
C4_RotateRightModulo ==
    op = "rotate_right" =>
        /\ res # Panic
        /\ decrypt(res) = RefRotr(args[1], args[2] % 32)

\* C5: for 0 <= k < 32, shift_right(k) decrypts to x >> k: slot j holds bit
\* j+k of x for j < 32-k, the top k slots hold false, and k = 0 returns x
C5_ShiftRight ==
    (op = "shift_right" /\ args[2] < 32) =>
        LET x == args[1]
            shift == args[2]
        IN /\ res # Panic
           /\ decrypt(res) = RefShr(x, shift)
           /\ \A j \in 0..31 :
                res[j] = (IF j < 32 - shift THEN BitOf(x, j + shift) ELSE FALSE)
           /\ shift = 0 => res = encrypt(x)

\* the shift of the unit test: a word with its top bit set, shifted by 12
C5_Witness ==
    /\ op = "shift_right"
    /\ args = <<Sample(3), 12>>
    /\ decrypt(res) = RefShr(Sample(3), 12)
    /\ ~res[20]

\* C7: shift_right with shift >= 32, shift = 32 included, returns no word
C7_ShiftRightAborts == (op = "shift_right" /\ args[2] >= 32) => res = Panic

\* C8: the six helpers decrypt to their SHA-256 definitions
C8_Helpers ==
    /\ op = "sigma0" => decrypt(res) = RefSigma0(args[1])
    /\ op = "sigma1" => decrypt(res) = RefSigma1(args[1])
    /\ op = "capsigma0" => decrypt(res) = RefCapsigma0(args[1])
    /\ op = "capsigma1" => decrypt(res) = RefCapsigma1(args[1])
    /\ op = "ch" => decrypt(res) = RefCh(args[1], args[2], args[3])
    /\ op = "maj" => decrypt(res) = RefMaj(args[1], args[2], args[3])

\* sigma0 applied to the word of the unit tests
C8_Witness ==
    /\ op = "sigma0"
    /\ args = <<Sample(3)>>
    /\ decrypt(res) = RefSigma0(Sample(3))

Probe == U32(\H0000, \Hffff)

\* C9 as stated: on x = 0x0000FFFF, capsigma0 = 0x3C07C3F8, capsigma1 =
\* 0x039FFC60, sigma0 = 0xC1FFDE00 and sigma1 = 0x6006003F
C9_ProbesAsStated ==
    args = <<Probe>> =>
        /\ op = "capsigma0" => decrypt(res) = U32(\H3c07, \Hc3f8)
        /\ op = "capsigma1" => decrypt(res) = U32(\H039f, \Hfc60)
        /\ op = "sigma0" => decrypt(res) = U32(\Hc1ff, \Hde00)
        /\ op = "sigma1" => decrypt(res) = U32(\H6006, \H003f)

\* C9 (amended): on x = 0x0000FFFF, capsigma0 = 0x3C07C3F8, capsigma1 =
\* 0x039FFC60, sigma0 = 0xC1FFDE00 and sigma1 = 0x6000603F
C9_Probes ==
    args = <<Probe>> =>
        /\ op = "capsigma0" => decrypt(res) = U32(\H3c07, \Hc3f8)
        /\ op = "capsigma1" => decrypt(res) = U32(\H039f, \Hfc60)
        /\ op = "sigma0" => decrypt(res) = U32(\Hc1ff, \Hde00)
        /\ op = "sigma1" => decrypt(res) = U32(\H6000, \H603f)

\* sigma1 has been applied to the probe
C9_Witness ==
    /\ op = "sigma1"
    /\ args = <<Probe>>
    /\ decrypt(res) = U32(\H6000, \H603f)

\* the textbook SHA-256 assignment chain on plaintext words
RefStep(A, kw) ==
    LET t1 == RefAdd(RefAdd(RefAdd(A[7], RefCapsigma1(A[4])),
                            RefCh(A[4], A[5], A[6])), kw)
        t2 == RefAdd(RefCapsigma0(A[0]), RefMaj(A[0], A[1], A[2]))
    IN (0 :> RefAdd(t1, t2)) @@ (1 :> A[0]) @@ (2 :> A[1]) @@ (3 :> A[2]) @@
       (4 :> RefAdd(A[3], t1)) @@ (5 :> A[4]) @@ (6 :> A[5]) @@ (7 :> A[6])

\* C10: round overwrites only slots d and h, and round followed by the
\* rotation of the working state by one position gives the eight words of
\* the textbook assignment chain
C10_RoundThenRotate ==
    op = "round" =>
        LET A == args[1]
        IN /\ \A j \in {0, 1, 2, 4, 5, 6} : res.after_round[j] = encrypt(A[j])
           /\ [j \in 0..7 |-> decrypt(res.rotated[j])] = RefStep(A, args[2])

\* a round on a working state of distinct words with a non-zero round key
C10_Witness ==
    /\ op = "round"
    /\ args = <<SampleAlphabet(1), Sample(3)>>
    /\ decrypt(res.rotated[0]) = RefStep(SampleAlphabet(1), Sample(3))[0]
    /\ res.after_round[3] # encrypt(SampleAlphabet(1)[3])

(***************************************************************************)
(* Reference SHA-256 (FIPS 180-4) on plaintext: padding, the 64-word       *)
(* message schedule, the assignment chain and the chaining addition.       *)
(***************************************************************************)
RefPad(M) == M \o <<128>> \o Zeros(FewestZeros(Len(M))) \o RefBe64(8 * Len(M))

\* word t (from 0) of block b (from 0) of the padded message P
RefWord(P, b, t) ==
    LET at == 64 * b + 4 * t
    IN U32(P[at + 1] * 256 + P[at + 2], P[at + 3] * 256 + P[at + 4])

RECURSIVE RefScheduleTo(_, _)
\* W_0 .. W_(n-1) as a sequence (W_t at position t + 1), from W_0 .. W_15
RefScheduleTo(W, n) ==
    LET t == Len(W)
    IN IF t >= n THEN W
       ELSE RefScheduleTo(Append(W,
                RefAdd(RefAdd(RefAdd(RefSigma1(W[t - 1]), W[t - 6]),
                              RefSigma0(W[t - 14])), W[t - 15])), n)

\* the 64-word message schedule of a block
RefSchedule(W) == RefScheduleTo(W, 64)

RECURSIVE RefRounds(_, _, _)
RefRounds(A, W, t) ==
    IF t = 64 THEN A
    ELSE LET a_next == RefStep(A, RefAdd(K[t], W[t + 1]))
         IN IF DOMAIN a_next = 0..7 THEN RefRounds(a_next, W, t + 1) ELSE <<>>

RefCompress(hv, P, b) ==
    LET W == RefSchedule([t \in 1..16 |-> RefWord(P, b, t - 1)])
        A == RefRounds(hv, W, 0)
    IN [j \in 0..7 |-> RefAdd(hv[j], A[j])]

RECURSIVE RefBlocks(_, _, _)
RefBlocks(hv, P, b) ==
    IF 64 * b >= Len(P) THEN hv ELSE RefBlocks(RefCompress(hv, P, b), P, b + 1)

RefBytes(x) == <<x[1] \div 256, x[1] % 256, x[2] \div 256, x[2] % 256>>

RefSha256(M) ==
    LET hv == RefBlocks(H, RefPad(M), 0)
    IN RefBytes(hv[0]) \o RefBytes(hv[1]) \o RefBytes(hv[2]) \o RefBytes(hv[3]) \o
       RefBytes(hv[4]) \o RefBytes(hv[5]) \o RefBytes(hv[6]) \o RefBytes(hv[7])

\* SHA-256 of the empty message, the first test vector of the repository
EmptyDigest ==
    <<\He3, \Hb0, \Hc4, \H42, \H98, \Hfc, \H1c, \H14, \H9a, \Hfb, \Hf4, \Hc8,
      \H99, \H6f, \Hb9, \H24, \H27, \Hae, \H41, \He4, \H64, \H9b, \H93, \H4c,
      \Ha4, \H95, \H99, \H1b, \H78, \H52, \Hb8, \H55>>

(***************************************************************************)
(* Claims about the pipeline, checked under Spec.                          *)
(***************************************************************************)

\* C1: for every message M, padded and encrypted by either entry point, the
\* bytes decrypt_hash returns after sha256_tfhe are the reference SHA-256
\* digest of M
C1_DigestIsSha256 ==
    (pc = "done" /\ source \in {"encrypt_input", "trivial_encrypt_input"}) =>
        /\ hash = RefSha256(message)
        /\ message = <<>> => hash = EmptyDigest

\* a message of two blocks, encrypted with the client key, has been hashed
C1_Witness ==
    /\ pc = "done"
    /\ source = "encrypt_input"
    /\ Len(message) = 56
    /\ Len(input_ct) = 32
    /\ Len(hash) = 32

\* C6: sha256_tfhe returns no digest when the number of input words is 0 or
\* not divisible by 16
C6_AbortsUnlessPositiveMultiple ==
    (source # "none" /\ (Len(input_ct) = 0 \/ Len(input_ct) % 16 # 0)) =>
        (pc \notin {"returned", "done"} /\ digest = <<>>)

\* the sixteen plaintext input words of block b (word t at position t + 1)
BlockWords(b) == [t \in 1..16 |-> decrypt(input_ct[16 * b + t])]

\* C11: in every block the 16-slot window reproduces the 64-word message
\* schedule: rounds 0..15 take W_i from the input and pass K[i] + W_i to the
\* round; for i in 16..63 the four pairwise distinct slots i, i+1, i+9, i+14
\* (mod 16) hold W_{i-16}, W_{i-15}, W_{i-7}, W_{i-2} before the update, slot
\* i mod 16 holds W_i after it, and the round receives W_i + K[i]
C11_ScheduleWindow ==
    pc \in {"from_fn", "for_rounds", "chain"} =>
        LET W == RefScheduleTo(BlockWords(blk), rnd)
        IN /\ rnd >= 1 => decrypt(k_arg) = RefAdd(K[rnd - 1], W[rnd])
           /\ (rnd >= 1 /\ rnd <= 16) =>
                \A j \in 0..(rnd - 1) : w[j] = input_ct[16 * blk + j + 1]
           /\ pc = "for_rounds" =>
                /\ Cardinality({rnd % 16, (rnd + 1) % 16, (rnd + 9) % 16,
                                (rnd + 14) % 16}) = 4
                /\ decrypt(w[rnd % 16]) = W[rnd - 15]
                /\ decrypt(w[(rnd + 1) % 16]) = W[rnd - 14]
                /\ decrypt(w[(rnd + 9) % 16]) = W[rnd - 6]
                /\ decrypt(w[(rnd + 14) % 16]) = W[rnd - 1]
           /\ rnd > 16 => decrypt(w[(rnd - 1) % 16]) = W[rnd]

\* round 39 of the second block has run: its slot holds W_39, which is not
\* the input word it held before the updates
C11_Witness ==
    /\ pc = "for_rounds"
    /\ blk = 1
    /\ rnd = 40
    /\ decrypt(w[7]) = RefSchedule(BlockWords(1))[40]
    /\ w[7] # input_ct[16 + 7 + 1]

\* the reference compression of one block of sixteen plaintext words
RefCompressWords(hv, W16) ==
    LET A == RefRounds(hv, RefSchedule(W16), 0)
    IN [j \in 0..7 |-> RefAdd(hv[j], A[j])]

RECURSIVE RefChain(_)
\* the reference chaining state after the first b blocks of the input, in order
RefChain(b) ==
    IF b = 0 THEN H ELSE RefCompressWords(RefChain(b - 1), BlockWords(b - 1))

Plain(words) == [j \in 0..7 |-> decrypt(words[j])]

\* what C12 says of every state of a run on 16*B words, B >= 1
C12_State ==
    (source # "none" /\ Len(input_ct) >= 16 /\ Len(input_ct) % 16 = 0) =>
        /\ pc # "panic"
        /\ pc = "for_blocks" =>
            /\ blk <= blocks
            /\ it = 16 * blk
            /\ blk = 0 => s = [j \in 0..7 |-> trivial_encrypt(H[j])]
            /\ Plain(s) = RefChain(blk)
        /\ pc = "from_fn" =>
            /\ blk < blocks
            /\ it = 16 * blk + rnd
            /\ rnd = 0 => alphabet = s
            /\ \A j \in 0..(rnd - 1) : w[j] = input_ct[16 * blk + j + 1]
        /\ pc \in {"for_rounds", "chain"} =>
            /\ blk < blocks
            /\ it = 16 * (blk + 1)
        /\ pc \in {"returned", "done"} =>
            /\ blk = blocks
            /\ it = Len(input_ct)
            /\ digest = s

\* what C12 says of every step of such a run
C12_Step ==
    (source # "none" /\ Len(input_ct) >= 16 /\ Len(input_ct) % 16 = 0) =>
        /\ pc = "chain" =>
            /\ \A j \in 0..7 :
                decrypt(s'[j]) = RefAdd(decrypt(s[j]), decrypt(alphabet[j]))
            /\ blk' = blk + 1
        /\ pc \in {"for_blocks", "from_fn", "for_rounds", "returned"} =>
            /\ s' = s
            /\ blk' = blk
        /\ pc = "from_fn" =>
            /\ it' = it + 1
            /\ w'[rnd] = input_ct[it + 1]
        /\ pc \in {"for_blocks", "for_rounds", "chain", "returned"} => it' = it
        /\ (pc = "for_blocks" /\ pc' = "from_fn") => alphabet' = s

\* C12: on 16*B input words (B >= 1) the compression runs exactly B times in
\* block order, the input words are consumed in order and each once (the
\* iterator never runs out early and is empty at the end), block 0 starts
\* from H, each block's working state starts as a copy of the chaining
\* state, each block ends with s[i] = s[i] + A[i] mod 2^32, s is otherwise
\* untouched, and the final s is the digest
C12_BlockChaining == []C12_State /\ [][C12_Step]_vars

\* a run on two blocks has returned: both blocks consumed, digest = s
C12_Witness ==
    /\ pc = "returned"
    /\ Len(input_ct) = 32
    /\ blk = 2
    /\ it = 32
    /\ digest = s
    /\ Plain(digest) = RefChain(2)
    /\ Plain(digest) # RefChain(1)

====
